---------------------------- MODULE Spec2Model ----------------------------
(***************************************************************************)
(* A model of cuffnote/mortgages.py: the Mortgage class (loan terms, the   *)
(* derived down payment / loan amount, the cached payment range, the       *)
(* standard amortization table) and the ExtraMonthlyPrincipal wrapper      *)
(* (recurring extra principal with early-payoff truncation).               *)
(*                                                                         *)
(* Numbers.  Python floats are modelled as exact rationals <<n, d>> in     *)
(* lowest terms with d > 0, in dollars.  round(x, 2) and DataFrame.round(2)*)
(* are modelled as rounding to the nearest hundredth, ties to even.        *)
(* Dates are calendar dates <<year, month, day>>.                          *)
(***************************************************************************)
EXTENDS Integers, Sequences, FiniteSets, TLC

VARIABLES loan, xmp, alp, op, ret

vars == <<loan, xmp, alp, op, ret>>

-----------------------------------------------------------------------------
(* Exact rational arithmetic (the float operations of the source).         *)

Abs(x) == IF x < 0 THEN -x ELSE x

RECURSIVE GCD(_, _)
GCD(a, b) ==
    IF b = 0 THEN a
    ELSE IF a % b = 0 THEN b
    ELSE GCD(a % b, b % (a % b))

(* n / d in lowest terms with a positive denominator *)
Norm[n \in Int, d \in Int] ==
    IF d < 0 THEN <<(-n) \div GCD(Abs(n), -d), (-d) \div GCD(Abs(n), -d)>>
    ELSE <<n \div GCD(Abs(n), d), d \div GCD(Abs(n), d)>>

Q == Int \X Int

R(i) == <<i, 1>>

Zero == R(0)

One == R(1)

RNeg[x \in Q] == <<-x[1], x[2]>>

(* over the least common denominator *)
LCD[x \in Q, y \in Q] == (x[2] \div GCD(x[2], y[2])) * y[2]

RAdd[x \in Q, y \in Q] ==
    Norm[x[1] * (LCD[x, y] \div x[2]) + y[1] * (LCD[x, y] \div y[2]), LCD[x, y]]

RSub[x \in Q, y \in Q] ==
    Norm[x[1] * (LCD[x, y] \div x[2]) - y[1] * (LCD[x, y] \div y[2]), LCD[x, y]]

(* common factors are cancelled before the products are formed *)
RMul[x \in Q, y \in Q] ==
    Norm[(x[1] \div GCD(Abs(x[1]), y[2])) * (y[1] \div GCD(Abs(y[1]), x[2])),
         (x[2] \div GCD(Abs(y[1]), x[2])) * (y[2] \div GCD(Abs(x[1]), y[2]))]

RInv[x \in Q] == IF x[1] < 0 THEN <<-x[2], -x[1]>> ELSE <<x[2], x[1]>>

RDiv[x \in Q, y \in Q] == RMul[x, RInv[y]]

RLt[x \in Q, y \in Q] == RSub[x, y][1] < 0

RLe[x \in Q, y \in Q] == RSub[x, y][1] <= 0

(* x ** n for n >= 0; x is in lowest terms, so is the result *)
RPow[x \in Q, n \in Nat] == IF n = 0 THEN One ELSE <<x[1]^n, x[2]^n>>

(* The integer nearest to x, ties to the even one. *)
RoundHalfEven[x \in Q] ==
    LET q == x[1] \div x[2]
        rem == x[1] - q * x[2]
    IN  IF 2 * rem < x[2] THEN q
        ELSE IF 2 * rem > x[2] THEN q + 1
        ELSE IF q % 2 = 0 THEN q ELSE q + 1

(* round(x, ndigits) for ndigits = 2 and 3 *)
Round2[x \in Q] == Norm[RoundHalfEven[RMul[x, R(100)]], 100]

Round3[x \in Q] == Norm[RoundHalfEven[RMul[x, R(1000)]], 1000]

-----------------------------------------------------------------------------
(* numpy_financial: pmt, fv, ipmt, ppmt with fv = 0 and when = 'end'.      *)

pmt[rate \in Q, nper \in Nat, pv \in Q] ==
    LET temp == RPow[RAdd[One, rate], nper]
        fact == IF rate = Zero THEN R(nper)
                ELSE RDiv[RSub[temp, One], rate]
    IN  RNeg[RDiv[RMul[pv, temp], fact]]

fv[rate \in Q, nper \in Nat, pmt_ \in Q, pv \in Q] ==
    LET temp == RPow[RAdd[One, rate], nper]
    IN  IF rate = Zero THEN RNeg[RAdd[pv, RMul[pmt_, R(nper)]]]
        ELSE RSub[RNeg[RMul[pv, temp]],
                  RMul[RDiv[pmt_, rate], RSub[temp, One]]]

ipmt[rate \in Q, per \in Nat, nper \in Nat, pv \in Q] ==
    RMul[fv[rate, per - 1, pmt[rate, nper, pv], pv], rate]

ppmt[rate \in Q, per \in Nat, nper \in Nat, pv \in Q] ==
    RSub[pmt[rate, nper, pv], ipmt[rate, per, nper, pv]]

-----------------------------------------------------------------------------
(* pandas: date_range(start, periods = n, freq = 'MS') and strftime.       *)

DateLt(a, b) ==
    \/ a[1] < b[1]
    \/ a[1] = b[1] /\ a[2] < b[2]
    \/ a[1] = b[1] /\ a[2] = b[2] /\ a[3] < b[3]

AddMonths(date, k) ==
    LET m0 == (date[1] * 12 + (date[2] - 1)) + k
    IN  <<m0 \div 12, (m0 % 12) + 1, date[3]>>

(* 'MS': the first month start on or after the date *)
MonthStart(date) ==
    IF date[3] = 1 THEN date ELSE AddMonths(<<date[1], date[2], 1>>, 1)

date_range(start, periods) ==
    [i \in 1..periods |-> AddMonths(MonthStart(start), i - 1)]

(* strftime("%m-%d-%Y") *)
strftime(date) == <<date[2], date[3], date[1]>>

-----------------------------------------------------------------------------
(* class Mortgage                                                          *)

(* None where an object is expected, None where a date is expected, nan *)
NoneObj == [cls |-> "NoneType"]

NoDate == <<0, 0, 0>>

NaN == <<0, 0>>

payment_range_of(self) ==
    date_range(self.start_date, self.years * self.num_yearly_pmts)

Mortgage__init__(purchase_price, down_payment_percent, interest_rate, start_date, years, num_yearly_payments) ==
    LET down_payment == RMul[purchase_price, down_payment_percent]
    IN  [cls                  |-> "Mortgage",
         purchase_price       |-> purchase_price,
         down_payment_percent |-> down_payment_percent,
         interest_rate        |-> interest_rate,
         start_date           |-> start_date,
         years                |-> years,
         num_yearly_pmts      |-> num_yearly_payments,
         down_payment         |-> down_payment,
         loan_amount          |-> RSub[purchase_price, down_payment],
         payment_range        |-> date_range(start_date, years * num_yearly_payments)]

periodic_rate(self) == RDiv[self.interest_rate, R(self.num_yearly_pmts)]

nper_of(self) == self.years * self.num_yearly_pmts

get_payment(self) ==
    Round2[RNeg[pmt[periodic_rate(self), nper_of(self), self.loan_amount]]]

Mortgage_set_purchase_price(self, purchase_price) ==
    LET down_payment == RMul[purchase_price, self.down_payment_percent]
    IN  [self EXCEPT !.purchase_price = purchase_price,
                     !.down_payment = down_payment,
                     !.loan_amount = RSub[purchase_price, down_payment]]

Mortgage_set_down_payment_percent(self, down_payment_percent) ==
    LET down_payment == RMul[self.purchase_price, down_payment_percent]
    IN  [self EXCEPT !.down_payment_percent = down_payment_percent,
                     !.down_payment = down_payment,
                     !.loan_amount = RSub[self.purchase_price, down_payment]]

Mortgage_set_down_payment(self, down_payment) ==
    [self EXCEPT !.down_payment = down_payment,
                 !.loan_amount = RSub[self.purchase_price, down_payment],
                 !.down_payment_percent =
                     Round3[RDiv[down_payment, self.purchase_price]]]

Mortgage_set_interest_rate(self, interest_rate) ==
    [self EXCEPT !.interest_rate = interest_rate]

Mortgage_set_years(self, years) == [self EXCEPT !.years = years]

Mortgage_set_num_yearly_pmts(self, num_yearly_pmts) ==
    [self EXCEPT !.num_yearly_pmts = num_yearly_pmts]

Mortgage_set_start_date(self, start_date) ==
    [self EXCEPT !.start_date = start_date]

(* get_payment_range stores the range it returns *)
Mortgage_get_payment_range(self) ==
    [self EXCEPT !.payment_range = payment_range_of(self)]

get_payoff_date(self) ==
    strftime(self.payment_range[Len(self.payment_range)])

get_number_of_payments(self) == self.years * self.num_yearly_pmts

(* The table before the final round(2): row i from row i - 1. *)
MortgageRow(self, i, prev) ==
    LET principal == RNeg[ppmt[periodic_rate(self), i, nper_of(self), self.loan_amount]]
        interest  == RNeg[ipmt[periodic_rate(self), i, nper_of(self), self.loan_amount]]
        beginning == IF i = 1 THEN self.loan_amount ELSE prev.EndingBalance
    IN  [Period                  |-> i,
         PaymentDate             |-> payment_range_of(self)[i],
         Payment                 |-> get_payment(self),
         PrincipalPaid           |-> principal,
         InterestPaid            |-> interest,
         BeginningBalance        |-> beginning,
         EndingBalance           |-> RSub[beginning, principal],
         CumulativePrincipalPaid |->
             IF i = 1 THEN principal
             ELSE RAdd[prev.CumulativePrincipalPaid, principal],
         CumulativeInterestPaid  |->
             IF i = 1 THEN interest
             ELSE RAdd[prev.CumulativeInterestPaid, interest]]

(* The rows are built in period order; Len(acc) rows are done. *)
RECURSIVE MortgageRows(_, _)
MortgageRows(self, acc) ==
    IF Len(acc) >= nper_of(self) THEN acc
    ELSE MortgageRows(self, Append(acc, MortgageRow(self, Len(acc) + 1, IF Len(acc) = 0 THEN NoneObj ELSE acc[Len(acc)])))

(* DataFrame.round(2): every float column, not the index or the dates *)
RoundRow(row) ==
    [c \in DOMAIN row |->
        IF c \in {"Period", "PaymentDate"} THEN row[c] ELSE Round2[row[c]]]

RoundTable(atable) == [i \in 1..Len(atable) |-> RoundRow(atable[i])]

Mortgage_get_amortization_table(self) == RoundTable(MortgageRows(self, <<>>))

(* A variant that reads the last period's principal, not the cumulative one *)
get_total_principal_paid_last_period(self) ==
    LET atable == Mortgage_get_amortization_table(self)
    IN  Round2[atable[Len(atable)].PrincipalPaid]

get_total_principal_paid(self) ==
    LET atable == Mortgage_get_amortization_table(self)
    IN  Round2[atable[Len(atable)].CumulativePrincipalPaid]

get_total_interest_paid(self) ==
    LET atable == Mortgage_get_amortization_table(self)
    IN  Round2[atable[Len(atable)].CumulativeInterestPaid]

-----------------------------------------------------------------------------
(* class ExtraMonthlyPrincipal(Mortgage)                                   *)

(* float(extra_principal) changes the type, not the value *)
float(x) == x

(* A variant that forgets the configured amount *)
get_extra_principal_default(self) == Zero

get_extra_principal(self) == self.extra_principal

ExtraMonthlyPrincipal__init__(mortgage, extra_principal) ==
    LET base == Mortgage__init__(mortgage.purchase_price, mortgage.down_payment_percent, mortgage.interest_rate, mortgage.start_date, mortgage.years, mortgage.num_yearly_pmts)
    IN  [cls                  |-> "ExtraMonthlyPrincipal",
         purchase_price       |-> base.purchase_price,
         down_payment_percent |-> base.down_payment_percent,
         interest_rate        |-> base.interest_rate,
         start_date           |-> base.start_date,
         years                |-> base.years,
         num_yearly_pmts      |-> base.num_yearly_pmts,
         down_payment         |-> base.down_payment,
         loan_amount          |-> base.loan_amount,
         payment_range        |-> base.payment_range,
         extra_principal      |-> float(extra_principal)]

ExtraMonthlyPrincipal_set_extra_principal(self, extra_principal) ==
    [self EXCEPT !.extra_principal = float(extra_principal)]

(* A variant whose gate is inclusive: the period dated on the start date  *)
(* gets no extra principal either.                                         *)
ExtraColumn_inclusive(self, extra_principal_start_date, i) ==
    IF /\ extra_principal_start_date # NoDate
       /\ ~DateLt(extra_principal_start_date, payment_range_of(self)[i])
    THEN Zero
    ELSE self.extra_principal

(* line 412-416: the Extra Principal column before the loop *)
ExtraColumn(self, extra_principal_start_date, i) ==
    IF /\ extra_principal_start_date # NoDate
       /\ DateLt(payment_range_of(self)[i], extra_principal_start_date)
    THEN Zero
    ELSE get_extra_principal(self)

(* line 420: the payoff test on the previous ending balance *)
IsPayoff(self, prevEnding) ==
    /\ RLt[Zero, Round2[prevEnding]]
    /\ RLe[prevEnding, get_payment(self)]

(* Row i before filtering and rounding.  prev is row i - 1; a row the loop *)
(* never reaches (after the break) keeps the values of lines 407-409.      *)
(* branch records which path of the loop wrote the row.                    *)
ExtraRow(self, start, i, prev) ==
    LET r     == periodic_rate(self)
        date  == payment_range_of(self)[i]
        extra == ExtraColumn(self, start, i)
    IN  IF i = 1 THEN
            LET principal == RNeg[ppmt[r, 1, nper_of(self), self.loan_amount]]
                interest  == RNeg[ipmt[r, 1, nper_of(self), self.loan_amount]]
            IN  [Period |-> 1, PaymentDate |-> date, branch |-> "first",
                 Payment |-> get_payment(self),
                 PrincipalPaid |-> principal, InterestPaid |-> interest,
                 ExtraPrincipal |-> extra,
                 BeginningBalance |-> self.loan_amount,
                 EndingBalance |-> RSub[RSub[self.loan_amount, principal], extra]]
        ELSE IF prev.branch \in {"break", "unset"} THEN
            [Period |-> i, PaymentDate |-> date, branch |-> "unset",
             Payment |-> get_payment(self),
             PrincipalPaid |-> Zero, InterestPaid |-> Zero,
             ExtraPrincipal |-> extra,
             BeginningBalance |-> Zero,
             EndingBalance |-> NaN]
        ELSE IF IsPayoff(self, prev.EndingBalance) THEN
            LET payment   == RMul[prev.EndingBalance, RAdd[One, r]]
                interest  == RMul[r, prev.EndingBalance]
                principal == RSub[payment, interest]
                ending    == RSub[prev.EndingBalance, principal]
            IN  [Period |-> i, PaymentDate |-> date,
                 branch |-> IF Round2[ending] = Zero THEN "break" ELSE "payoff",
                 Payment |-> payment,
                 PrincipalPaid |-> principal, InterestPaid |-> interest,
                 ExtraPrincipal |-> Zero,
                 BeginningBalance |-> prev.EndingBalance,
                 EndingBalance |-> ending]
        ELSE
            LET interest  == RMul[r, prev.EndingBalance]
                principal == RSub[get_payment(self), interest]
            IN  [Period |-> i, PaymentDate |-> date, branch |-> "normal",
                 Payment |-> get_payment(self),
                 PrincipalPaid |-> principal, InterestPaid |-> interest,
                 ExtraPrincipal |-> extra,
                 BeginningBalance |-> prev.EndingBalance,
                 EndingBalance |-> RSub[RSub[prev.EndingBalance, principal], extra]]

RECURSIVE ExtraRows(_, _, _)
ExtraRows(self, start, acc) ==
    IF Len(acc) >= nper_of(self) THEN acc
    ELSE ExtraRows(self, start, Append(acc, ExtraRow(self, start, Len(acc) + 1, IF Len(acc) = 0 THEN NoneObj ELSE acc[Len(acc)])))

(* A variant that drops only the rows the loop never wrote *)
KeepRow_written(row) == row.EndingBalance # NaN

(* A variant that filters on the balance the period starts with *)
KeepRow_beginning(row) ==
    /\ row.EndingBalance # NaN
    /\ RLe[Zero, Round2[row.BeginningBalance]]

(* line 434: atable[atable['Ending Balance'].round(2) >= 0.0]; nan >= 0 is False *)
KeepRow(row) ==
    /\ row.EndingBalance # NaN
    /\ RLe[Zero, Round2[row.EndingBalance]]

(* lines 435-437: the cumulative columns of the rows kept *)
RECURSIVE WithCumulative(_, _)
WithCumulative(rows, acc) ==
    IF Len(acc) >= Len(rows) THEN acc
    ELSE LET i    == Len(acc) + 1
             row  == rows[i]
             paid == RAdd[row.PrincipalPaid, row.ExtraPrincipal]
         IN  WithCumulative(rows, Append(acc,
                [Period |-> row.Period, PaymentDate |-> row.PaymentDate,
                 Payment |-> row.Payment,
                 PrincipalPaid |-> row.PrincipalPaid,
                 InterestPaid |-> row.InterestPaid,
                 ExtraPrincipal |-> row.ExtraPrincipal,
                 BeginningBalance |-> row.BeginningBalance,
                 EndingBalance |-> row.EndingBalance,
                 CumulativePrincipalPaid |->
                     IF i = 1 THEN paid
                     ELSE RAdd[acc[i - 1].CumulativePrincipalPaid, paid],
                 CumulativeInterestPaid |->
                     IF i = 1 THEN row.InterestPaid
                     ELSE RAdd[acc[i - 1].CumulativeInterestPaid, row.InterestPaid]]))

ExtraMonthlyPrincipal_get_amortization_table(self, extra_principal_start_date) ==
    RoundTable(WithCumulative(SelectSeq(ExtraRows(self, extra_principal_start_date, <<>>), KeepRow), <<>>))

-----------------------------------------------------------------------------
(* class AnnualLumpPayment: constructed over a Mortgage (extra principal   *)
(* 0.0) or over an ExtraMonthlyPrincipal (its recurring amount).           *)

AnnualLumpPayment__init__(mortgage, annual_payment, annual_payment_month) ==
    LET extra == IF mortgage.cls = "ExtraMonthlyPrincipal"
                 THEN get_extra_principal(mortgage)
                 ELSE Zero
        base  == ExtraMonthlyPrincipal__init__(mortgage, extra)
    IN  [cls                  |-> "AnnualLumpPayment",
         purchase_price       |-> base.purchase_price,
         down_payment_percent |-> base.down_payment_percent,
         interest_rate        |-> base.interest_rate,
         start_date           |-> base.start_date,
         years                |-> base.years,
         num_yearly_pmts      |-> base.num_yearly_pmts,
         down_payment         |-> base.down_payment,
         loan_amount          |-> base.loan_amount,
         payment_range        |-> base.payment_range,
         extra_principal      |-> base.extra_principal,
         annual_payment       |-> annual_payment,
         annual_payment_month |-> annual_payment_month]

-----------------------------------------------------------------------------
(* Inputs.                                                                 *)

MaxYears == 2

PurchasePrices == {R(100), R(30)}

DownPaymentPercents == {Norm[1, 5], Norm[1, 16]}

DownPayments == {R(10)}

InterestRates == {Zero, One}

StartDates == {<<2021, 1, 1>>, <<2021, 11, 15>>}

Years == 1..MaxYears

NumYearlyPmts == {1, 2}

ExtraPrincipals == {Zero, Norm[1, 100], R(5), R(30)}

ExtraStartDates == {NoDate, <<2021, 2, 1>>, <<2022, 1, 15>>}

AnnualPayments == {R(10)}

AnnualPaymentMonths == {12}

(* Terms outside the documented ranges, for the constructor *)
AnyPurchasePrices == PurchasePrices \cup {Zero, R(-100)}

AnyDownPaymentPercents == DownPaymentPercents \cup {Norm[-1, 2], One, Norm[3, 2]}

AnyInterestRates == InterestRates \cup {Norm[-1, 10]}

AnyYears == Years \cup {0}

AnyNumYearlyPmts == NumYearlyPmts \cup {0}

-----------------------------------------------------------------------------
(* The state: the three objects of the test fixtures (loan, the            *)
(* ExtraMonthlyPrincipal built from it, the AnnualLumpPayment built from   *)
(* either), the last call made and the value it returned.                  *)

Call(obj, name, arg) == [obj |-> obj, name |-> name, arg |-> arg]

None == <<>>

Init ==
    /\ loan \in {Mortgage__init__(pp, dpp, ir, sd, y, n) :
                    pp \in PurchasePrices, dpp \in DownPaymentPercents,
                    ir \in InterestRates, sd \in StartDates,
                    y \in Years, n \in NumYearlyPmts}
    /\ xmp = NoneObj
    /\ alp = NoneObj
    /\ op = Call("loan", "__init__", None)
    /\ ret = None

(* Mortgage setters *)
set_purchase_price ==
    \E v \in PurchasePrices :
        /\ loan' = Mortgage_set_purchase_price(loan, v)
        /\ op' = Call("loan", "set_purchase_price", v)
        /\ ret' = None
        /\ UNCHANGED <<xmp, alp>>

set_down_payment_percent ==
    \E v \in DownPaymentPercents :
        /\ loan' = Mortgage_set_down_payment_percent(loan, v)
        /\ op' = Call("loan", "set_down_payment_percent", v)
        /\ ret' = None
        /\ UNCHANGED <<xmp, alp>>

set_down_payment ==
    \E v \in DownPayments :
        /\ loan' = Mortgage_set_down_payment(loan, v)
        /\ op' = Call("loan", "set_down_payment", v)
        /\ ret' = None
        /\ UNCHANGED <<xmp, alp>>

set_interest_rate ==
    \E v \in InterestRates :
        /\ loan' = Mortgage_set_interest_rate(loan, v)
        /\ op' = Call("loan", "set_interest_rate", v)
        /\ ret' = None
        /\ UNCHANGED <<xmp, alp>>

set_years ==
    \E v \in Years :
        /\ loan' = Mortgage_set_years(loan, v)
        /\ op' = Call("loan", "set_years", v)
        /\ ret' = None
        /\ UNCHANGED <<xmp, alp>>

set_num_yearly_pmts ==
    \E v \in NumYearlyPmts :
        /\ loan' = Mortgage_set_num_yearly_pmts(loan, v)
        /\ op' = Call("loan", "set_num_yearly_pmts", v)
        /\ ret' = None
        /\ UNCHANGED <<xmp, alp>>

set_start_date ==
    \E v \in StartDates :
        /\ loan' = Mortgage_set_start_date(loan, v)
        /\ op' = Call("loan", "set_start_date", v)
        /\ ret' = None
        /\ UNCHANGED <<xmp, alp>>

(* Mortgage readers *)
loan_get_payment ==
    /\ op' = Call("loan", "get_payment", None)
    /\ ret' = get_payment(loan)
    /\ UNCHANGED <<loan, xmp, alp>>

loan_get_payment_range ==
    /\ loan' = Mortgage_get_payment_range(loan)
    /\ op' = Call("loan", "get_payment_range", None)
    /\ ret' = loan'.payment_range
    /\ UNCHANGED <<xmp, alp>>

loan_get_payoff_date ==
    /\ Len(loan.payment_range) > 0
    /\ op' = Call("loan", "get_payoff_date", None)
    /\ ret' = get_payoff_date(loan)
    /\ UNCHANGED <<loan, xmp, alp>>

loan_get_amortization_table ==
    /\ loan' = Mortgage_get_payment_range(loan)
    /\ op' = Call("loan", "get_amortization_table", None)
    /\ ret' = Mortgage_get_amortization_table(loan)
    /\ UNCHANGED <<xmp, alp>>

loan_get_total_principal_paid ==
    /\ loan' = Mortgage_get_payment_range(loan)
    /\ op' = Call("loan", "get_total_principal_paid", None)
    /\ ret' = get_total_principal_paid(loan)
    /\ UNCHANGED <<xmp, alp>>

(* ExtraMonthlyPrincipal(loan, extra_principal) *)
ExtraMonthlyPrincipal ==
    \E v \in ExtraPrincipals :
        /\ xmp' = ExtraMonthlyPrincipal__init__(loan, v)
        /\ op' = Call("xmp", "__init__", v)
        /\ ret' = None
        /\ UNCHANGED <<loan, alp>>

xmp_get_payment ==
    /\ op' = Call("xmp", "get_payment", None)
    /\ ret' = get_payment(xmp)
    /\ UNCHANGED <<loan, xmp, alp>>

xmp_set_extra_principal ==
    \E v \in ExtraPrincipals :
        /\ xmp' = ExtraMonthlyPrincipal_set_extra_principal(xmp, v)
        /\ op' = Call("xmp", "set_extra_principal", v)
        /\ ret' = None
        /\ UNCHANGED <<loan, alp>>

xmp_get_amortization_table ==
    \E d \in ExtraStartDates :
        /\ xmp' = Mortgage_get_payment_range(xmp)
        /\ op' = Call("xmp", "get_amortization_table", d)
        /\ ret' = ExtraMonthlyPrincipal_get_amortization_table(xmp, d)
        /\ UNCHANGED <<loan, alp>>

(* AnnualLumpPayment(loan, ...) and AnnualLumpPayment(xmp, ...) *)
AnnualLumpPayment ==
    \E base \in {loan, xmp}, a \in AnnualPayments, m \in AnnualPaymentMonths :
        /\ base.cls # "NoneType"
        /\ alp' = AnnualLumpPayment__init__(base, a, m)
        /\ op' = Call("alp", "__init__", <<base.cls, a, m>>)
        /\ ret' = None
        /\ UNCHANGED <<loan, xmp>>

alp_get_extra_principal ==
    /\ op' = Call("alp", "get_extra_principal", None)
    /\ ret' = get_extra_principal(alp)
    /\ UNCHANGED <<loan, xmp, alp>>

(* The fixtures build the loan, then its wrappers, then read them. *)
LoanPhase == xmp.cls = "NoneType" /\ alp.cls = "NoneType"

WrapPhase == xmp.cls # "NoneType" /\ alp.cls = "NoneType"

Next ==
    \/ LoanPhase /\ set_purchase_price
    \/ LoanPhase /\ set_down_payment_percent
    \/ LoanPhase /\ set_down_payment
    \/ LoanPhase /\ set_interest_rate
    \/ LoanPhase /\ set_years
    \/ LoanPhase /\ set_num_yearly_pmts
    \/ LoanPhase /\ set_start_date
    \/ LoanPhase /\ loan_get_payment
    \/ LoanPhase /\ loan_get_payment_range
    \/ LoanPhase /\ loan_get_payoff_date
    \/ LoanPhase /\ loan_get_amortization_table
    \/ LoanPhase /\ loan_get_total_principal_paid
    \/ LoanPhase /\ ExtraMonthlyPrincipal
    \/ WrapPhase /\ xmp_get_payment
    \/ WrapPhase /\ xmp_set_extra_principal
    \/ WrapPhase /\ xmp_get_amortization_table
    \/ alp.cls = "NoneType" /\ AnnualLumpPayment
    \/ alp.cls # "NoneType" /\ alp_get_extra_principal

Spec == Init /\ [][Next]_vars

(* Mortgage(...) with any arguments: __init__ checks none of them.  The    *)
(* only call that could fail is pd.date_range, which accepts periods = 0.  *)
Mortgage ==
    \E pp \in AnyPurchasePrices, dpp \in AnyDownPaymentPercents,
       ir \in AnyInterestRates, sd \in StartDates,
       y \in AnyYears, n \in AnyNumYearlyPmts :
        /\ loan' = Mortgage__init__(pp, dpp, ir, sd, y, n)
        /\ op' = Call("loan", "__init__", <<pp, dpp, ir, sd, y, n>>)
        /\ ret' = None
        /\ UNCHANGED <<xmp, alp>>

InitCtor ==
    /\ loan = NoneObj
    /\ xmp = NoneObj
    /\ alp = NoneObj
    /\ op = Call("module", "import", None)
    /\ ret = None

NextCtor == Mortgage

SpecCtor == InitCtor /\ [][NextCtor]_vars

-----------------------------------------------------------------------------
(* The wrapper after construction: the methods ExtraMonthlyPrincipal        *)
(* inherits from Mortgage, called on the wrapper, and the methods of the    *)
(* wrapped Mortgage called after the wrapper was built from it.             *)

(* A variant in which the wrapper keeps the Mortgage it was given and its   *)
(* inherited methods act on that object.                                    *)
instance_of_wrapped(receiver) == "loan"

(* lines 379-388: Mortgage.__init__(self, ...) is handed the wrapper's own  *)
(* self and immutable values read through the getters, so the              *)
(* inherited attributes live in the wrapper instance, and a method called   *)
(* on an object reads and writes that object's attributes.                  *)
instance_of(receiver) == receiver

Load(receiver) == IF instance_of(receiver) = "loan" THEN loan ELSE xmp

Store(receiver, obj) ==
    /\ loan' = IF instance_of(receiver) = "loan" THEN obj ELSE loan
    /\ xmp' = IF instance_of(receiver) = "xmp" THEN obj ELSE xmp

xmp_set_purchase_price ==
    \E v \in PurchasePrices :
        /\ Store("xmp", Mortgage_set_purchase_price(Load("xmp"), v))
        /\ op' = Call("xmp", "set_purchase_price", v)
        /\ ret' = None
        /\ UNCHANGED alp

xmp_set_down_payment_percent ==
    \E v \in DownPaymentPercents :
        /\ Store("xmp", Mortgage_set_down_payment_percent(Load("xmp"), v))
        /\ op' = Call("xmp", "set_down_payment_percent", v)
        /\ ret' = None
        /\ UNCHANGED alp

xmp_set_down_payment ==
    \E v \in DownPayments :
        /\ Store("xmp", Mortgage_set_down_payment(Load("xmp"), v))
        /\ op' = Call("xmp", "set_down_payment", v)
        /\ ret' = None
        /\ UNCHANGED alp

xmp_set_interest_rate ==
    \E v \in InterestRates :
        /\ Store("xmp", Mortgage_set_interest_rate(Load("xmp"), v))
        /\ op' = Call("xmp", "set_interest_rate", v)
        /\ ret' = None
        /\ UNCHANGED alp

xmp_set_years ==
    \E v \in Years :
        /\ Store("xmp", Mortgage_set_years(Load("xmp"), v))
        /\ op' = Call("xmp", "set_years", v)
        /\ ret' = None
        /\ UNCHANGED alp

xmp_set_num_yearly_pmts ==
    \E v \in NumYearlyPmts :
        /\ Store("xmp", Mortgage_set_num_yearly_pmts(Load("xmp"), v))
        /\ op' = Call("xmp", "set_num_yearly_pmts", v)
        /\ ret' = None
        /\ UNCHANGED alp

xmp_set_start_date ==
    \E v \in StartDates :
        /\ Store("xmp", Mortgage_set_start_date(Load("xmp"), v))
        /\ op' = Call("xmp", "set_start_date", v)
        /\ ret' = None
        /\ UNCHANGED alp

(* Inherited readers.  get_payoff_date and get_number_of_payments are not   *)
(* overridden: on a wrapper they read the Mortgage attributes of the        *)
(* wrapper, not its schedule.                                               *)
xmp_get_payment_range ==
    /\ Store("xmp", Mortgage_get_payment_range(Load("xmp")))
    /\ op' = Call("xmp", "get_payment_range", None)
    /\ ret' = payment_range_of(Load("xmp"))
    /\ UNCHANGED alp

xmp_get_payoff_date ==
    /\ Len(xmp.payment_range) > 0
    /\ op' = Call("xmp", "get_payoff_date", None)
    /\ ret' = get_payoff_date(xmp)
    /\ UNCHANGED <<loan, xmp, alp>>

xmp_get_number_of_payments ==
    /\ op' = Call("xmp", "get_number_of_payments", None)
    /\ ret' = get_number_of_payments(xmp)
    /\ UNCHANGED <<loan, xmp, alp>>

(* Series.iloc[-1] of an empty column raises IndexError.  A call that      *)
(* raises returns the exception's name, a 1-tuple; a float is a pair.       *)
IndexError == <<"IndexError">>

Raised(v) == Len(v) = 1

(* lines 267-291 on a wrapper: self.get_amortization_table() is the         *)
(* override, called without a start date.                                   *)
ExtraMonthlyPrincipal_get_total_principal_paid(self) ==
    LET atable == ExtraMonthlyPrincipal_get_amortization_table(self, NoDate)
    IN  IF Len(atable) = 0 THEN IndexError
        ELSE Round2[atable[Len(atable)].CumulativePrincipalPaid]

ExtraMonthlyPrincipal_get_total_interest_paid(self) ==
    LET atable == ExtraMonthlyPrincipal_get_amortization_table(self, NoDate)
    IN  IF Len(atable) = 0 THEN IndexError
        ELSE Round2[atable[Len(atable)].CumulativeInterestPaid]

ExtraMonthlyPrincipal_get_total_cost_of_loan(self) ==
    LET principal == ExtraMonthlyPrincipal_get_total_principal_paid(self)
        interest  == ExtraMonthlyPrincipal_get_total_interest_paid(self)
    IN  IF Raised(principal) THEN principal
        ELSE IF Raised(interest) THEN interest
        ELSE Round2[RAdd[principal, interest]]

xmp_get_total_principal_paid ==
    /\ xmp' = Mortgage_get_payment_range(xmp)
    /\ op' = Call("xmp", "get_total_principal_paid", None)
    /\ ret' = ExtraMonthlyPrincipal_get_total_principal_paid(xmp)
    /\ UNCHANGED <<loan, alp>>

xmp_get_total_interest_paid ==
    /\ xmp' = Mortgage_get_payment_range(xmp)
    /\ op' = Call("xmp", "get_total_interest_paid", None)
    /\ ret' = ExtraMonthlyPrincipal_get_total_interest_paid(xmp)
    /\ UNCHANGED <<loan, alp>>

xmp_get_total_cost_of_loan ==
    /\ xmp' = Mortgage_get_payment_range(xmp)
    /\ op' = Call("xmp", "get_total_cost_of_loan", None)
    /\ ret' = ExtraMonthlyPrincipal_get_total_cost_of_loan(xmp)
    /\ UNCHANGED <<loan, alp>>

(* The fixture: a loan and the wrapper built from it. *)
InitWrapper ==
    /\ loan \in {Mortgage__init__(R(30), Norm[1, 5], ir, <<2021, 1, 1>>, 1, 2) :
                    ir \in InterestRates}
    /\ \E v \in {R(5)} :
          /\ xmp = ExtraMonthlyPrincipal__init__(loan, v)
          /\ op = Call("xmp", "__init__", v)
    /\ alp = NoneObj
    /\ ret = None

(* After the construction one of the two objects is worked on. *)
LoanSide == op.obj = "loan" \/ op.name = "__init__"

WrapperSide == op.obj = "xmp"

(* The terms in which the two objects differ by now; the setters stop once  *)
(* MaxEdits terms were changed on the object worked on.                     *)
MaxEdits == 1

Terms == {"purchase_price", "down_payment_percent", "interest_rate", "start_date", "years", "num_yearly_pmts"}

Edits == Cardinality({t \in Terms : loan[t] # xmp[t]})

LoanSetter == LoanSide /\ Edits < MaxEdits

WrapperSetter == WrapperSide /\ Edits < MaxEdits

NextWrapper ==
    \/ LoanSetter /\ set_purchase_price
    \/ LoanSetter /\ set_down_payment_percent
    \/ LoanSetter /\ set_down_payment
    \/ LoanSetter /\ set_interest_rate
    \/ LoanSetter /\ set_years
    \/ LoanSetter /\ set_num_yearly_pmts
    \/ LoanSetter /\ set_start_date
    \/ LoanSide /\ loan_get_payment_range
    \/ LoanSide /\ loan_get_amortization_table
    \/ WrapperSetter /\ xmp_set_purchase_price
    \/ WrapperSetter /\ xmp_set_down_payment_percent
    \/ WrapperSetter /\ xmp_set_down_payment
    \/ WrapperSetter /\ xmp_set_interest_rate
    \/ WrapperSetter /\ xmp_set_years
    \/ WrapperSetter /\ xmp_set_num_yearly_pmts
    \/ WrapperSetter /\ xmp_set_start_date
    \/ WrapperSide /\ xmp_set_extra_principal
    \/ WrapperSide /\ xmp_get_payment_range
    \/ WrapperSide /\ xmp_get_amortization_table
    \/ WrapperSide /\ xmp_get_payoff_date
    \/ WrapperSide /\ xmp_get_number_of_payments
    \/ WrapperSide /\ xmp_get_total_principal_paid
    \/ WrapperSide /\ xmp_get_total_interest_paid
    \/ WrapperSide /\ xmp_get_total_cost_of_loan

SpecWrapper == InitWrapper /\ [][NextWrapper]_vars

-----------------------------------------------------------------------------
(* Properties.                                                             *)

IsCall(obj, name) == op.obj = obj /\ op.name = name

(* The periodic payment of an annuity: L * r / (1 - (1 + r)^-N), L / N at  *)
(* rate 0, to the cent.                                                    *)
AnnuityPayment(L, r, N) ==
    IF r = Zero THEN Round2[RDiv[L, R(N)]]
    ELSE Round2[RDiv[RMul[L, r], RSub[One, RInv[RPow[RAdd[One, r], N]]]]]

(* C1: after any sequence of setters with valid values the derived values  *)
(* are current: down payment = purchase price * down payment percent, loan *)
(* amount = purchase price - down payment, and the payment is the annuity  *)
(* payment of the current loan amount, rate and number of periods.         *)
C1_NoStaleDerivedValue ==
    loan.cls = "Mortgage" =>
        /\ loan.down_payment = RMul[loan.purchase_price, loan.down_payment_percent]
        /\ loan.loan_amount = RSub[loan.purchase_price, loan.down_payment]
        /\ get_payment(loan) =
               AnnuityPayment(loan.loan_amount, periodic_rate(loan), nper_of(loan))

(* C5: an ExtraMonthlyPrincipal built from a Mortgage in any state its     *)
(* setters reach reports the Mortgage's payment.                           *)
C5_WrapperPaymentInherited ==
    IsCall("xmp", "__init__") => get_payment(xmp) = get_payment(loan)

(* C7: get_payoff_date returns the last date of the payment dates of the   *)
(* current terms, whatever setters ran since the range was last built.     *)
C7_PayoffDateNeverStale ==
    IsCall("loan", "get_payoff_date") =>
        ret = strftime(payment_range_of(loan)[nper_of(loan)])

(* The documented ranges of the terms of a loan *)
ValidTerms(self) ==
    /\ RLt[Zero, self.purchase_price]
    /\ RLe[Zero, self.down_payment_percent]
    /\ RLt[self.down_payment_percent, One]
    /\ RLe[Zero, self.interest_rate]
    /\ self.years > 0
    /\ self.num_yearly_pmts > 0

(* C10: no Mortgage object with invalid terms ever exists.                 *)
C10_NoInvalidMortgage ==
    loan.cls = "Mortgage" => ValidTerms(loan)

Last(seq) == seq[Len(seq)]

Range(seq) == {seq[i] : i \in 1..Len(seq)}

RAbs[x \in Q] == <<Abs(x[1]), x[2]>>

(* C2: with a positive extra principal, gated or not, the last record of   *)
(* the ExtraMonthlyPrincipal schedule has an ending balance of 0.00.       *)
C2_LastEndingBalanceZero ==
    (/\ IsCall("xmp", "get_amortization_table")
     /\ RLt[Zero, get_extra_principal(xmp)]
     /\ Len(ret) > 0)
        => Last(ret).EndingBalance = Zero

(* C3 as claimed: any positive extra principal applied from the first     *)
(* period gives strictly fewer records than years * payments per year.     *)
C3_StrictlyFewerRecords ==
    (/\ IsCall("xmp", "get_amortization_table")
     /\ op.arg = NoDate
     /\ RLt[Zero, get_extra_principal(xmp)])
        => Len(ret) < nper_of(xmp)

Columns ==
    {"PaymentDate", "Payment", "PrincipalPaid", "InterestPaid", "BeginningBalance",
     "EndingBalance", "CumulativePrincipalPaid", "CumulativeInterestPaid"}

SameSchedule(a, b) ==
    /\ Len(a) = Len(b)
    /\ \A i \in 1..Len(a) : \A c \in Columns : a[i][c] = b[i][c]

(* C4: with extra principal 0 the ExtraMonthlyPrincipal schedule is the    *)
(* Mortgage schedule of the same terms, period for period.                 *)
C4_ZeroExtraSameSchedule ==
    (/\ IsCall("xmp", "get_amortization_table")
     /\ get_extra_principal(xmp) = Zero)
        => SameSchedule(ret, Mortgage_get_amortization_table(xmp))

(* C3 as amended: the schedule never has more records than the nominal    *)
(* term, and strictly fewer once the extra principal, applied from the     *)
(* first period, is at least the periodic payment.                         *)
C3_FewerRecordsFromPaymentSizedExtra ==
    IsCall("xmp", "get_amortization_table") =>
        /\ Len(ret) <= nper_of(xmp)
        /\ (op.arg = NoDate /\ RLt[Zero, get_extra_principal(xmp)]
              /\ RLe[get_payment(xmp), get_extra_principal(xmp)])
             => Len(ret) < nper_of(xmp)

C3_Witness ==
    /\ IsCall("xmp", "get_amortization_table")
    /\ op.arg = NoDate
    /\ RLe[get_payment(xmp), get_extra_principal(xmp)]
    /\ nper_of(xmp) >= 4
    /\ Len(ret) >= 1
    /\ Len(ret) < nper_of(xmp)

(* The periods the loop's payoff branch (line 420) wrote *)
PayoffPeriods(self, start) ==
    LET all == ExtraRows(self, start, <<>>)
    IN  {i \in 1..Len(all) : all[i].branch \in {"payoff", "break"}}

(* C6: in get_amortization_table(d) a record dated before d has Extra      *)
(* Principal 0 and a record dated on or after d, the payoff period aside,  *)
(* has the configured extra principal; with no d every record but the      *)
(* payoff period has it.                                                   *)
C6_ExtraGatedByStartDate ==
    IsCall("xmp", "get_amortization_table") =>
        \A k \in 1..Len(ret) :
            IF op.arg # NoDate /\ DateLt(ret[k].PaymentDate, op.arg)
            THEN ret[k].ExtraPrincipal = Zero
            ELSE ret[k].Period \notin PayoffPeriods(xmp, op.arg)
                     => ret[k].ExtraPrincipal = get_extra_principal(xmp)

C6_Witness ==
    /\ IsCall("xmp", "get_amortization_table")
    /\ op.arg # NoDate
    /\ RLt[Zero, get_extra_principal(xmp)]
    /\ \E k \in 1..Len(ret) :
          /\ DateLt(ret[k].PaymentDate, op.arg)
          /\ ret[k].ExtraPrincipal = Zero
    /\ \E k \in 1..Len(ret) :
          /\ ret[k].PaymentDate = op.arg
          /\ ret[k].ExtraPrincipal = get_extra_principal(xmp)
    /\ \E k \in 1..Len(ret) :
          /\ ret[k].Period \in PayoffPeriods(xmp, op.arg)
          /\ ret[k].ExtraPrincipal = Zero

(* C8: the total principal paid over the standard schedule is the loan     *)
(* amount within 0.01.                                                     *)
C8_TotalPrincipalIsLoanAmount ==
    IsCall("loan", "get_total_principal_paid") =>
        RLe[RAbs[RSub[ret, loan.loan_amount]], Norm[1, 100]]

C8_Witness ==
    /\ IsCall("loan", "get_total_principal_paid")
    /\ nper_of(loan) >= 4
    /\ loan.interest_rate # Zero
    /\ ret # loan.loan_amount

Getters(self) ==
    [purchase_price       |-> self.purchase_price,
     down_payment_percent |-> self.down_payment_percent,
     down_payment         |-> self.down_payment,
     interest_rate        |-> self.interest_rate,
     years                |-> self.years,
     num_yearly_pmts      |-> self.num_yearly_pmts,
     start_date           |-> self.start_date,
     loan_amount          |-> self.loan_amount,
     payment              |-> get_payment(self),
     payoff_date          |-> get_payoff_date(self),
     number_of_payments   |-> get_number_of_payments(self)]

(* The schedules of a wrapper, one for each start date of the extra amount *)
Schedules(self) ==
    [d \in ExtraStartDates |-> ExtraMonthlyPrincipal_get_amortization_table(self, d)]

(* C11: once the wrapper is built, a setter or schedule build on the        *)
(* wrapper leaves every getter of the wrapped Mortgage unchanged, and a     *)
(* setter or schedule build on the Mortgage leaves every getter, the extra  *)
(* principal and the schedules of the wrapper unchanged.                    *)
C11_NoSharedState ==
    [][/\ op'.obj = "xmp" => Getters(loan') = Getters(loan)
       /\ op'.obj = "loan" =>
              /\ Getters(xmp') = Getters(xmp)
              /\ get_extra_principal(xmp') = get_extra_principal(xmp)
              /\ Schedules(xmp') = Schedules(xmp)]_vars

C11_Witness ==
    /\ xmp.cls = "ExtraMonthlyPrincipal"
    /\ IsCall("loan", "set_purchase_price")
    /\ loan.purchase_price = R(100)
    /\ xmp.purchase_price = R(30)
    /\ get_payment(xmp) # get_payment(loan)

(* C12: the records of the ExtraMonthlyPrincipal schedule are the periods   *)
(* 1..k without a gap, and no record has a negative ending balance.         *)
C12_OnlyTrailingPeriodsDropped ==
    IsCall("xmp", "get_amortization_table") =>
        \A k \in 1..Len(ret) :
            /\ ret[k].Period = k
            /\ RLe[Zero, ret[k].EndingBalance]

C12_Witness ==
    /\ IsCall("xmp", "get_amortization_table")
    /\ Len(ret) >= 2
    /\ Len(ret) < nper_of(xmp)
    /\ \E row \in Range(ExtraRows(xmp, op.arg, <<>>)) :
          /\ row.EndingBalance # NaN
          /\ RLt[Round2[row.EndingBalance], Zero]

(* C13: no record of the ExtraMonthlyPrincipal schedule, the payoff period  *)
(* included, has a Payment above the periodic payment get_payment().        *)
C13_PaymentNeverAboveScheduled ==
    IsCall("xmp", "get_amortization_table") =>
        \A k \in 1..Len(ret) : RLe[ret[k].Payment, get_payment(xmp)]

Totals == {"get_total_principal_paid", "get_total_interest_paid", "get_total_cost_of_loan"}

(* C14: whatever the extra principal, the ExtraMonthlyPrincipal schedule    *)
(* has at least one record, and the totals read from its last record        *)
(* return a value.                                                          *)
C14_ScheduleNeverEmpty ==
    /\ IsCall("xmp", "get_amortization_table") => Len(ret) >= 1
    /\ (op.obj = "xmp" /\ op.name \in Totals) => ~Raised(ret)

(* C15: on an ExtraMonthlyPrincipal get_payoff_date() is the payment date   *)
(* of the last record of its schedule and get_number_of_payments() is the   *)
(* number of records of that schedule.                                      *)
C15_PayoffFollowsSchedule ==
    LET atable == ExtraMonthlyPrincipal_get_amortization_table(xmp, NoDate)
    IN  /\ (IsCall("xmp", "get_payoff_date") /\ Len(atable) > 0)
               => ret = strftime(Last(atable).PaymentDate)
        /\ IsCall("xmp", "get_number_of_payments") => ret = Len(atable)

=============================================================================
